---- MODULE Spec2Model ----
(***************************************************************************)
(* Model of the dynamics-graph-tree core: the brute-force periodic         *)
(* sequence finder (algo.py), the Interval / Linear / PiecewiseLinear /    *)
(* Branch / Tree classes (tree.py) and the example configuration           *)
(* (basic_tree.py).                                                        *)
(*                                                                         *)
(* Python strings are sequences of one-character strings; the slice        *)
(* s[b:e] (0-based, half open) is Slice(s, b, e).                          *)
(***************************************************************************)
EXTENDS Integers, Sequences, FiniteSets, TLC

VARIABLES
    string,      \* algo.py: the argument of bruteforce_search
    found,       \* algo.py: the returned (prefix, cycle), or None
    ivA, ivB,    \* tree.py: two Interval objects built so far, or None
    ivOut,       \* tree.py: the last Interval operation and its outcome
    funcs,       \* tree.py: the list of Linear handed to PiecewiseLinear
    pl,          \* tree.py: the outcome of PiecewiseLinear(funcs)
    tree,        \* tree.py: the Tree's _f (sorted pieces) and _bs
    values,      \* tree.py: Tree._values
    itinerary,   \* tree.py: Tree._itinerary
    call         \* tree.py: the last Tree.iter call and how it ended, with
                 \* its number and how the call before it ended

searchVars == <<string, found>>
ivVars == <<ivA, ivB, ivOut>>
pwVars == <<funcs, pl>>
treeVars == <<tree, values, itinerary, call>>
vars == <<string, found, ivA, ivB, ivOut, funcs, pl, tree, values, itinerary, call>>

None == [none |-> TRUE]

\* ---------------------------------------------------------------- bounds
MaxLen == 6          \* longest enumerated symbol string
MaxEnd == 1          \* finite interval endpoints are 0, 2, .., 2*MaxEnd
MaxPieces == 3       \* longest list of pieces handed to PiecewiseLinear
MaxIter == 4         \* largest num_it passed to Tree.iter
MaxCalls == 2        \* number of Tree.iter calls made on one Tree
Prec == 5            \* significand bits of the binary floating-point format

\* ------------------------------------------------------------ algo.py
Alphabet == {"a", "b", "c"}

Slice(s, b, e) == SubSeq(s, b + 1, e)

RECURSIVE is_periodic_loop(_, _, _)
is_periodic_loop(substr, rem, i) ==
    IF i >= Len(rem) THEN TRUE
    ELSE IF rem[i + 1] # substr[(i % Len(substr)) + 1] THEN FALSE
    ELSE is_periodic_loop(substr, rem, i + 1)

is_periodic_noguard(substr, rem) ==
    IF Len(substr) = 0 THEN FALSE ELSE is_periodic_loop(substr, rem, 0)

is_periodic(substr, rem) ==
    LET k == Len(substr)
        r == Len(rem)
    IN  IF k = 0 \/ r = 0 \/ r < k THEN FALSE
        ELSE is_periodic_loop(substr, rem, 0)

RECURSIVE search_loop(_, _, _)
search_loop(s, begin_index, end_index) ==
    LET length == Len(s) IN
    IF ~(begin_index < length) THEN [prefix |-> s, cycle |-> <<>>]
    ELSE IF ~(end_index <= length)
         THEN search_loop(s, begin_index + 1, begin_index + 2)
    ELSE LET substr == Slice(s, begin_index, end_index) IN
         IF is_periodic(substr, Slice(s, end_index, length))
         THEN [prefix |-> Slice(s, 0, begin_index), cycle |-> substr]
         ELSE search_loop(s, begin_index, end_index + 1)

bruteforce_search_longest(s) ==
    LET length == Len(s)
        hits == {p \in (0..length) \X (0..length) :
                    /\ p[1] < p[2]
                    /\ is_periodic(Slice(s, p[1], p[2]), Slice(s, p[2], length))}
    IN  IF hits = {} THEN [prefix |-> s, cycle |-> <<>>]
        ELSE LET b == CHOOSE b \in {p[1] : p \in hits} :
                        \A p \in hits : b <= p[1]
                 e == CHOOSE e \in {p[2] : p \in {q \in hits : q[1] = b}} :
                        \A p \in hits : p[1] = b => e >= p[2]
             IN  [prefix |-> Slice(s, 0, b), cycle |-> Slice(s, b, e)]

bruteforce_search(s) == search_loop(s, 0, 1)

RECURSIVE StringsOfLen(_)
StringsOfLen(n) ==
    IF n = 0 THEN {<<>>}
    ELSE {Append(s, ch) : s \in StringsOfLen(n - 1), ch \in Alphabet}

\* the documented examples, beside every string over Alphabet up to MaxLen
Examples ==
    { <<"a","b","c","a","b","c","a","b","c">>,
      <<"x","a","b","c","a","b","c","a","b","c">>,
      <<"a","b","c","d","e">>,
      <<"a","a","a","a">> }

Strings == UNION {StringsOfLen(n) : n \in 0..MaxLen} \cup Examples

IdleSearch == string = <<>> /\ found = None
NoOp == [op |-> "none", nth |-> 0]

IdleInterval == ivA = None /\ ivB = None /\ ivOut = NoOp
IdlePiecewise == funcs = <<>> /\ pl = None
IdleTree == tree = None /\ values = <<>> /\ itinerary = <<>> /\ call = NoOp

InitSearch ==
    /\ string \in Strings
    /\ found = None
    /\ IdleInterval /\ IdlePiecewise /\ IdleTree

Search ==
    /\ found = None
    /\ found' = bruteforce_search(string)
    /\ UNCHANGED <<string, ivVars, pwVars, treeVars>>

NextSearch == Search

SpecSearch == InitSearch /\ [][NextSearch]_vars

\* ---- C1
\* a split (b, e) is accepted iff the remainder is at least as long as the
\* cycle and equals the cycle tiled and truncated to the remainder's length
Accepted(s, b, e) ==
    /\ Len(s) - e >= e - b
    /\ \A i \in 0..(Len(s) - e - 1) : s[e + i + 1] = s[b + (i % (e - b)) + 1]

Splits(s) == {p \in (0..Len(s)) \X (0..Len(s)) : p[1] < p[2] /\ Accepted(s, p[1], p[2])}

LexLess(p, q) == p[1] < q[1] \/ (p[1] = q[1] /\ p[2] < q[2])

Expected(s) ==
    IF Splits(s) = {} THEN [prefix |-> s, cycle |-> <<>>]
    ELSE LET p == CHOOSE p \in Splits(s) : \A q \in Splits(s) : q = p \/ LexLess(p, q)
         IN  [prefix |-> Slice(s, 0, p[1]), cycle |-> Slice(s, p[1], p[2])]

\* C1: bruteforce_search returns the prefix and cycle of the lexicographically
\* least accepted split (b, e), or (s, '') when no split is accepted; the four
\* documented examples give the documented results.
C1_LeastAcceptedSplit ==
    found # None =>
        /\ found = Expected(string)
        /\ string = <<"a","b","c","a","b","c","a","b","c">>
              => found = [prefix |-> <<>>, cycle |-> <<"a","b","c">>]
        /\ string = <<"x","a","b","c","a","b","c","a","b","c">>
              => found = [prefix |-> <<"x">>, cycle |-> <<"a","b","c">>]
        /\ string = <<"a","b","c","d","e">>
              => found = [prefix |-> <<"a","b","c","d","e">>, cycle |-> <<>>]
        /\ string = <<"a","a","a","a">>
              => found = [prefix |-> <<>>, cycle |-> <<"a">>]

\* a search ended with a non-empty prefix, a cycle longer than one symbol and
\* a remainder that stops in the middle of a cycle
C1_Witness ==
    /\ found # None
    /\ Len(found.prefix) > 0
    /\ Len(found.cycle) > 1
    /\ (Len(string) - Len(found.prefix)) % Len(found.cycle) # 0

\* ---- C10
Repeat(d, m) == [i \in 1..(Len(d) * m) |-> d[((i - 1) % Len(d)) + 1]]

Primitive(c) ==
    \A k \in 1..(Len(c) - 1) :
        Len(c) % k = 0 => c # Repeat(SubSeq(c, 1, k), Len(c) \div k)

\* C10: a returned non-empty cycle is primitive, the prefix (if any) ends in a
\* symbol other than the cycle's last one, and the periodic tail holds at
\* least two cycle lengths.
C10_Irreducible ==
    (found # None /\ found.cycle # <<>>) =>
        LET p == found.prefix
            c == found.cycle
        IN  /\ Primitive(c)
            /\ p # <<>> => p[Len(p)] # c[Len(c)]
            /\ Len(string) - Len(p) >= 2 * Len(c)

\* a search returned a cycle of at least two symbols after a non-empty prefix
C10_Witness ==
    /\ found # None
    /\ Len(found.cycle) >= 2
    /\ Len(found.prefix) >= 1

\* ------------------------------------------------------- tree.py: Interval
infty == 1000000     \* np.infty; every finite number of the model lies
                     \* strictly between -infty and infty

ValueError(msg) == [error |-> "ValueError", msg |-> msg]

IsError(x) == "error" \in DOMAIN x

Interval_plus_only(start, stop, incl_l, incl_r) ==
    IF start > stop
    THEN ValueError("Invalid interval")
    ELSE IF start = stop /\ ~(incl_l /\ incl_r)
    THEN ValueError("Invalid interval without inclusive bounds")
    ELSE IF stop = infty /\ incl_r
    THEN ValueError("Infinity cannot be included")
    ELSE [int |-> <<start, stop>>, l |-> incl_l, r |-> incl_r]

\* Interval.__init__ (the arguments of the model are never None)
Interval(start, stop, incl_l, incl_r) ==
    IF start > stop
    THEN ValueError("Invalid interval")
    ELSE IF start = stop /\ ~(incl_l /\ incl_r)
    THEN ValueError("Invalid interval without inclusive bounds")
    ELSE IF (start = infty /\ incl_l) \/ (stop = infty /\ incl_r)
    THEN ValueError("Infinity cannot be included")
    ELSE [int |-> <<start, stop>>, l |-> incl_l, r |-> incl_r]

overlaps_closed(self, other) ==
    IF other.int[2] < self.int[1] \/ self.int[2] < other.int[1] THEN FALSE
    ELSE TRUE

overlaps_left_only(self, other) ==
    IF other.int[2] < self.int[1] \/ self.int[2] < other.int[1] THEN FALSE
    ELSE IF other.int[2] = self.int[1] /\ ~(other.r /\ self.l) THEN FALSE
    ELSE TRUE

\* Interval.overlaps
overlaps(self, other) ==
    IF other.int[2] < self.int[1] \/ self.int[2] < other.int[1] THEN FALSE
    ELSE IF other.int[2] = self.int[1] /\ ~(other.r /\ self.l) THEN FALSE
    ELSE IF self.int[2] = other.int[1] /\ ~(self.r /\ other.l) THEN FALSE
    ELSE TRUE

\* Interval.__contains__: builds the point interval [x, x] (which raises for
\* x = infty) and asks overlaps
contains(self, x) ==
    LET pt == Interval(x, x, TRUE, TRUE)
    IN  IF IsError(pt) THEN pt ELSE overlaps(self, pt)

\* endpoints handed to the constructor: the even numbers 0 .. 2*MaxEnd and
\* the two infinities; the points asked of contains also take the odd
\* numbers between and beside them, so that every non-empty intersection of
\* two intervals holds one of the points
Ends == {2 * i : i \in 0..MaxEnd} \cup {-infty, infty}
Points == (-1)..(2 * MaxEnd + 1) \cup {-infty, infty}

InitInterval ==
    /\ IdleInterval
    /\ IdleSearch /\ IdlePiecewise /\ IdleTree

\* iv = Interval(start, stop, incl_l, incl_r), kept in slot A or B
Construct(slot, start, stop, incl_l, incl_r) ==
    LET iv == Interval(start, stop, incl_l, incl_r) IN
    /\ ivOut' = [op |-> "init", start |-> start, stop |-> stop,
                 incl_l |-> incl_l, incl_r |-> incl_r, res |-> iv]
    /\ IF IsError(iv) THEN UNCHANGED <<ivA, ivB>>
       ELSE IF slot = "A" THEN ivA' = iv /\ UNCHANGED ivB
       ELSE ivB' = iv /\ UNCHANGED ivA
    /\ UNCHANGED <<searchVars, pwVars, treeVars>>

\* self.overlaps(other) on the two built intervals, either way round
Overlaps(swap) ==
    /\ ivA # None /\ ivB # None
    /\ LET self == IF swap THEN ivB ELSE ivA
           other == IF swap THEN ivA ELSE ivB
       IN  ivOut' = [op |-> "overlaps", self |-> self, other |-> other,
                     res |-> overlaps(self, other)]
    /\ UNCHANGED <<ivA, ivB, searchVars, pwVars, treeVars>>

\* x in ivA
Contains(x) ==
    /\ ivA # None
    /\ ivOut' = [op |-> "contains", self |-> ivA, x |-> x, res |-> contains(ivA, x)]
    /\ UNCHANGED <<ivA, ivB, searchVars, pwVars, treeVars>>

NextInterval ==
    \/ \E slot \in {"A", "B"}, start \in Ends, stop \in Ends, incl_l \in BOOLEAN, incl_r \in BOOLEAN :
          Construct(slot, start, stop, incl_l, incl_r)
    \/ \E swap \in BOOLEAN : Overlaps(swap)
    \/ \E x \in Points : Contains(x)

SpecInterval == InitInterval /\ [][NextInterval]_vars

IsInf(x) == x = infty \/ x = -infty

\* x is a point of the interval iv
Member(x, iv) ==
    \/ iv.int[1] < x /\ x < iv.int[2]
    \/ x = iv.int[1] /\ iv.l
    \/ x = iv.int[2] /\ iv.r

\* ---- C3
\* C3: Interval construction fails exactly when start > stop, or start = stop
\* without both bounds inclusive, or an infinite endpoint is marked inclusive
\* on its side; so a constructed Interval has start <= stop, is inclusive on
\* both sides when degenerate, and never marks an infinite endpoint inclusive.
C3_ConstructionFailsExactly ==
    /\ ivOut.op = "init" =>
          (IsError(ivOut.res) <=>
              \/ ivOut.start > ivOut.stop
              \/ ivOut.start = ivOut.stop /\ ~(ivOut.incl_l /\ ivOut.incl_r)
              \/ IsInf(ivOut.start) /\ ivOut.incl_l
              \/ IsInf(ivOut.stop) /\ ivOut.incl_r)
    /\ \A iv \in {ivA, ivB} \ {None} :
          /\ iv.int[1] <= iv.int[2]
          /\ iv.int[1] = iv.int[2] => (iv.l /\ iv.r)
          /\ ~(IsInf(iv.int[1]) /\ iv.l)
          /\ ~(IsInf(iv.int[2]) /\ iv.r)

\* ---- C4
\* C4: A.overlaps(B) is true iff A and B have a point in common; when they
\* touch only at one shared boundary point that is iff both mark it
\* inclusive; and the answer is the same as B.overlaps(A).
C4_OverlapsIffCommonPoint ==
    ivOut.op = "overlaps" =>
        LET A == ivOut.self
            B == ivOut.other
        IN  /\ ivOut.res <=> (\E x \in Points : Member(x, A) /\ Member(x, B))
            /\ (A.int[2] < B.int[1] \/ B.int[2] < A.int[1]) => ~ivOut.res
            /\ (A.int[2] = B.int[1] /\ A.int[1] < B.int[2]) => (ivOut.res <=> (A.r /\ B.l))
            /\ (B.int[2] = A.int[1] /\ B.int[1] < A.int[2]) => (ivOut.res <=> (B.r /\ A.l))
            /\ ivOut.res = overlaps(B, A)

\* overlaps was asked of two intervals that share exactly one boundary point,
\* exclusive on one side, and of two that share it inclusive on both
C4_Witness ==
    /\ ivOut.op = "overlaps"
    /\ ivOut.self.int[2] = ivOut.other.int[1]
    /\ ivOut.self.int[1] < ivOut.other.int[2]
    /\ ivOut.self.r /\ ivOut.other.l
    /\ ivOut.res

\* ---- C5
\* C5: for a finite x, contains(x) is true iff start < x < stop, or x = start
\* and the left bound is inclusive, or x = stop and the right bound is
\* inclusive; so contains(start) = leftIncl and contains(stop) = rightIncl.
C5_ContainsRespectsBounds ==
    (ivOut.op = "contains" /\ ~IsInf(ivOut.x)) =>
        LET iv == ivOut.self
            x == ivOut.x
        IN  /\ ivOut.res \in BOOLEAN
            /\ ivOut.res <=> Member(x, iv)
            /\ x = iv.int[1] => (ivOut.res <=> iv.l)
            /\ x = iv.int[2] => (ivOut.res <=> iv.r)

\* contains was asked at the exclusive finite stop of a non-degenerate interval
C5_Witness ==
    /\ ivOut.op = "contains"
    /\ ivOut.x = ivOut.self.int[2]
    /\ ivOut.self.int[1] < ivOut.x
    /\ ~IsInf(ivOut.x)
    /\ ~ivOut.self.r
    /\ ivOut.res = FALSE


\* ------------------------------------- tree.py: Linear, PiecewiseLinear
\* Python's sorted(seq, key=..): ascending by key, equal keys keep their
\* order in seq; keys[i] is the key of seq[i]
sorted(seq, keys) ==
    LET n == Len(seq)
        rank(i) == 1 + Cardinality({j \in 1..n :
                        \/ keys[j] < keys[i]
                        \/ keys[j] = keys[i] /\ j < i})
    IN  [k \in 1..n |-> seq[CHOOSE i \in 1..n : rank(i) = k]]

mutually_disjoint(intervals) ==
    LET new_intervals == sorted(intervals, [i \in 1..Len(intervals) |-> intervals[i].int[1]])
    IN  \A i \in 1..(Len(new_intervals) - 1) :
            ~overlaps(new_intervals[i], new_intervals[i + 1])

\* Linear.__init__
Linear(slope, intercept, domain) == [a |-> slope, b |-> intercept, d |-> domain]

\* PiecewiseLinear.__init__
PiecewiseLinear(fs) ==
    IF ~mutually_disjoint([i \in 1..Len(fs) |-> fs[i].d])
    THEN ValueError("Function domains must be mutually disjoint")
    ELSE [funcs |-> sorted(fs, [i \in 1..Len(fs) |-> fs[i].d.int[1]]), num_funcs |-> Len(fs)]

\* every Interval the constructor builds from the enumerated endpoints
Intervals ==
    {iv \in {Interval(start, stop, incl_l, incl_r) :
                start \in Ends, stop \in Ends, incl_l \in BOOLEAN, incl_r \in BOOLEAN} :
        ~IsError(iv)}

RECURSIVE ListsOfLen(_, _)
ListsOfLen(S, n) ==
    IF n = 0 THEN {<<>>}
    ELSE {Append(l, x) : l \in ListsOfLen(S, n - 1), x \in S}

\* the domains handed to the pieces: the intervals that mark no infinite
\* endpoint inclusive
Domains == {iv \in Intervals : ~(iv.int[1] = -infty /\ iv.l) /\ ~(iv.int[2] = -infty /\ iv.r)}

InitPiecewise ==
    /\ funcs \in UNION {ListsOfLen({Linear(1, 0, d) : d \in Domains}, n) : n \in 0..MaxPieces}
    /\ pl = None
    /\ IdleSearch /\ IdleInterval /\ IdleTree

Build ==
    /\ pl = None
    /\ pl' = PiecewiseLinear(funcs)
    /\ UNCHANGED <<funcs, searchVars, ivVars, treeVars>>

NextPiecewise == Build

SpecPiecewise == InitPiecewise /\ [][NextPiecewise]_vars

\* ---- C2
\* C2: PiecewiseLinear construction fails iff some two of the supplied
\* domains overlap, whatever the order of the pieces and also with point
\* domains and domains sharing a start.
C2_FailsIffSomePairOverlaps ==
    pl # None =>
        (IsError(pl) <=>
            \E i \in 1..Len(funcs), j \in 1..Len(funcs) :
                i < j /\ overlaps(funcs[i].d, funcs[j].d))


\* ------------------------------------------ Python float arithmetic
\* A binary floating-point number with Prec significand bits (Python's float
\* has 53) is held as an integer count of Unit-ths: the integer m stands for
\* m / Unit, the binade [1, 2) has spacing 1 / Unit, and every operation
\* rounds its exact result to the nearest representable number, ties to even.
RECURSIVE Pow2(_)
Pow2(n) == IF n = 0 THEN 1 ELSE 2 * Pow2(n - 1)

Unit == Pow2(Prec - 1)

\* the spacing of the representable numbers around m >= 0
RECURSIVE Ulp(_)
Ulp(m) == IF m < Pow2(Prec) THEN 1 ELSE 2 * Ulp(m \div 2)

RoundHalfEven(m, u) ==
    LET q == m \div u
        r == m % u
    IN  IF 2 * r < u THEN q * u
        ELSE IF 2 * r > u THEN (q + 1) * u
        ELSE IF q % 2 = 0 THEN q * u
        ELSE (q + 1) * u

\* the float nearest to the exact value m
Fl(m) == IF m < 0 THEN 0 - RoundHalfEven(0 - m, Ulp(0 - m)) ELSE RoundHalfEven(m, Ulp(m))

\* ------------------------------------------ tree.py: calls, Branch, Tree
Result(v) == [val |-> v]

\* Linear.__call__: self._a * x + self._b, two rounded float operations
Linear_call(f, x) ==
    IF ~contains(f.d, x)
    THEN ValueError("Value is not in the domain")
    ELSE Result(Fl(Fl(f.a * x) + f.b))

\* PiecewiseLinear.__call__
RECURSIVE PiecewiseLinear_scan(_, _, _)
PiecewiseLinear_scan(fs, i, x) ==
    IF i > Len(fs) THEN ValueError("Value does not lie any defined domain")
    ELSE IF contains(fs[i].d, x) THEN Linear_call(fs[i], x)
    ELSE PiecewiseLinear_scan(fs, i + 1, x)

PiecewiseLinear_call(self, x) == PiecewiseLinear_scan(self.funcs, 1, x)

\* Branch.__init__
Branch(label, domain, order) == [label |-> label, domain |-> domain, order |-> order]

\* Tree.__init__ (the sorted (label, order) listing _meta is display data and
\* is left out)
Tree(f, bs) == [f |-> f, bs |-> bs, num_branches |-> Len(bs)]

RECURSIVE which_branch_scan(_, _, _)
which_branch_scan(bs, i, x) ==
    IF i > Len(bs) THEN ValueError("Value does not lie in any branch")
    ELSE IF contains(bs[i].domain, x) THEN bs[i]
    ELSE which_branch_scan(bs, i + 1, x)

which_branch_last(self, x) ==
    LET hits == {i \in 1..Len(self.bs) : contains(self.bs[i].domain, x)}
    IN  IF hits = {} THEN ValueError("Value does not lie in any branch")
        ELSE self.bs[CHOOSE i \in hits : \A j \in hits : j <= i]

\* Tree.which_branch
which_branch(self, x) == which_branch_scan(self.bs, 1, x)

RECURSIVE iter_loop_classify_first(_, _, _, _, _)
iter_loop_classify_first(self, vals, itin, s, k) ==
    IF k = 0 THEN [values |-> vals, itinerary |-> itin, raised |-> None]
    ELSE LET b == which_branch(self, s) IN
         IF IsError(b) THEN [values |-> vals, itinerary |-> itin, raised |-> b]
         ELSE LET fs == PiecewiseLinear_call(self.f, s) IN
              IF IsError(fs)
              THEN [values |-> Append(vals, s), itinerary |-> Append(itin, b), raised |-> fs]
              ELSE iter_loop_classify_first(self, Append(vals, s), Append(itin, b), fs.val, k - 1)

RECURSIVE iter_loop_skip_last(_, _, _, _, _)
iter_loop_skip_last(self, vals, itin, s, k) ==
    IF k = 0 THEN [values |-> vals, itinerary |-> itin, raised |-> None]
    ELSE LET b == which_branch(self, s) IN
         IF IsError(b) THEN [values |-> Append(vals, s), itinerary |-> itin, raised |-> b]
         ELSE IF k = 1
         THEN [values |-> Append(vals, s), itinerary |-> Append(itin, b), raised |-> None]
         ELSE LET fs == PiecewiseLinear_call(self.f, s) IN
              IF IsError(fs)
              THEN [values |-> Append(vals, s), itinerary |-> Append(itin, b), raised |-> fs]
              ELSE iter_loop_skip_last(self, Append(vals, s), Append(itin, b), fs.val, k - 1)

\* the for loop of Tree.iter with k rounds to go: append s, append its
\* branch, advance s; an exception leaves the buffers as they are
RECURSIVE iter_loop(_, _, _, _, _)
iter_loop(self, vals, itin, s, k) ==
    IF k = 0 THEN [values |-> vals, itinerary |-> itin, raised |-> None]
    ELSE LET vals2 == Append(vals, s)
             b == which_branch(self, s)
         IN  IF IsError(b) THEN [values |-> vals2, itinerary |-> itin, raised |-> b]
             ELSE LET itin2 == Append(itin, b)
                      fs == PiecewiseLinear_call(self.f, s)
                  IN  IF IsError(fs)
                      THEN [values |-> vals2, itinerary |-> itin2, raised |-> fs]
                      ELSE iter_loop(self, vals2, itin2, fs.val, k - 1)

iter_accumulate(self, old_values, old_itinerary, start, num_it) ==
    iter_loop(self, old_values, old_itinerary, start, num_it)

\* Tree.iter: both buffers are emptied, then the loop runs
iter(self, old_values, old_itinerary, start, num_it) ==
    iter_loop(self, <<>>, <<>>, start, num_it)

\* basic_tree.py: the module-level intervals, branches and pieces, and the
\* function and tree that run_batch builds
interval_a == Interval(0 * Unit, 10 * Unit, TRUE, FALSE)
interval_b == Interval(10 * Unit, 20 * Unit, TRUE, FALSE)
interval_c1 == Interval(20 * Unit, 25 * Unit, TRUE, FALSE)
interval_c2 == Interval(25 * Unit, 30 * Unit, TRUE, FALSE)

branch_a == Branch("a", interval_a, 0)
branch_b == Branch("b", interval_b, 1)
branch_c1 == Branch("c1", interval_c1, 2)
branch_c2 == Branch("c2", interval_c2, 3)

f1 == Linear(1, 10 * Unit, interval_a)
f2 == Linear(1, 10 * Unit, interval_b)
f3_1 == Linear(2, (0 - 40) * Unit, interval_c1)
f3_2 == Linear(2, (0 - 40) * Unit, interval_c2)

ScenarioTree ==
    Tree(PiecewiseLinear(<<f1, f2, f3_1, f3_2>>), <<branch_a, branch_b, branch_c1, branch_c2>>)

\* a second configuration: pieces supplied out of order and leaving gaps,
\* branches that overlap on [10, 15) and cover neither 30 nor beyond
GappedTree ==
    Tree(PiecewiseLinear(<<Linear(2, (0 - 40) * Unit, Interval(20 * Unit, 25 * Unit, TRUE, FALSE)),
                           Linear(1, 10 * Unit, Interval(0 * Unit, 10 * Unit, TRUE, FALSE)),
                           Linear(1, 20 * Unit, Interval(25 * Unit, 28 * Unit, TRUE, TRUE))>>),
         <<Branch("p", Interval(0 * Unit, 15 * Unit, TRUE, FALSE), 0),
           Branch("q", Interval(10 * Unit, 30 * Unit, TRUE, FALSE), 1)>>)

\* the starting points: the representable multiples of 1/2 from -1 to 31
Starts == {x \in (0 - Unit)..(31 * Unit) : Fl(x) = x /\ x % (Unit \div 2) = 0}

Init ==
    /\ tree \in {ScenarioTree, GappedTree}
    /\ values = <<>>
    /\ itinerary = <<>>
    /\ call = NoOp
    /\ IdleSearch /\ IdleInterval /\ IdlePiecewise

\* t.iter(start, num_it)
Iter(start, num_it) ==
    /\ call.nth < MaxCalls
    /\ \E r \in {iter(tree, values, itinerary, start, num_it)} :
          /\ values' = r.values
          /\ itinerary' = r.itinerary
          /\ call' = [op |-> "iter", start |-> start, num_it |-> num_it,
                      raised |-> r.raised, nth |-> call.nth + 1,
                      prev |-> IF call.op = "none" THEN "none"
                               ELSE IF call.raised = None THEN "returned" ELSE "raised"]
    /\ UNCHANGED <<tree, searchVars, ivVars, pwVars>>

Next == \E start \in Starts, num_it \in 0..MaxIter : Iter(start, num_it)

Spec == Init /\ [][Next]_vars

NoBranchError == ValueError("Value does not lie in any branch")
UndefinedPointError == ValueError("Value does not lie any defined domain")
\* ---- what a run is expected to do, from the map and the branches alone
First(S) == CHOOSE i \in S : \A j \in S : i <= j

\* the first branch in construction order whose domain holds x
ExpBranch(t, x) ==
    LET hits == {i \in 1..Len(t.bs) : Member(x, t.bs[i].domain)}
    IN  IF hits = {} THEN NoBranchError ELSE t.bs[First(hits)]

\* f(x): the piece of the map whose domain holds x, applied to x
ExpF(t, x) ==
    LET hits == {i \in 1..Len(t.f.funcs) : Member(x, t.f.funcs[i].d)}
    IN  IF hits = {} THEN UndefinedPointError
        ELSE LET p == t.f.funcs[First(hits)] IN Result(Fl(Fl(p.a * x) + p.b))

StepFails(t, x) == IsError(ExpBranch(t, x)) \/ IsError(ExpF(t, x))

\* the values start, f(start), f(f(start)), .. up to k of them, ending with
\* the first one at which a step fails
RECURSIVE ExpOrbit(_, _, _)
ExpOrbit(t, s, k) ==
    IF k = 0 THEN <<>>
    ELSE IF StepFails(t, s) THEN <<s>>
    ELSE <<s>> \o ExpOrbit(t, ExpF(t, s).val, k - 1)

Last(xs) == xs[Len(xs)]

\* ---- C6
\* C6: after any earlier calls, a successful iter(start, n) leaves values and
\* itinerary of length n, values[0] = start, values[i+1] = f(values[i]), and
\* itinerary[i] the first branch in construction order holding values[i]:
\* the result is fixed by the map, the branches, start and n.
C6_SuccessfulRunIsTheOrbit ==
    (call.op = "iter" /\ call.raised = None) =>
        /\ Len(values) = call.num_it
        /\ Len(itinerary) = call.num_it
        /\ call.num_it > 0 => values[1] = call.start
        /\ \A i \in 1..(call.num_it - 1) : values[i + 1] = ExpF(tree, values[i]).val
        /\ \A i \in 1..call.num_it : itinerary[i] = ExpBranch(tree, values[i])
        /\ values = ExpOrbit(tree, call.start, call.num_it)

\* a run of at least two steps succeeded right after a run that had raised
C6_Witness ==
    /\ call.op = "iter"
    /\ call.raised = None
    /\ call.num_it >= 2
    /\ call.prev = "raised"

\* ---- C7
\* C7: iter aborts at the first step whose value lies in no branch (no-branch
\* error) or, failing that, in no piece of f (undefined-point error), the
\* application of f at the last step included; it succeeds iff no step
\* fails, and the error reaches the caller.
C7_AbortsAtFirstFailingStep ==
    call.op = "iter" =>
        LET xs == ExpOrbit(tree, call.start, call.num_it)
            fails == xs # <<>> /\ StepFails(tree, Last(xs))
        IN  /\ (call.raised = None) <=> ~fails
            /\ fails => /\ Len(values) = Len(xs)
                        /\ Last(values) = Last(xs)
                        /\ call.raised = IF IsError(ExpBranch(tree, Last(xs)))
                                         THEN NoBranchError
                                         ELSE UndefinedPointError

\* a run of at least two steps was aborted by the undefined-point error raised
\* by the application of f at its last step
C7_Witness ==
    /\ call.op = "iter"
    /\ call.raised = UndefinedPointError
    /\ call.num_it >= 2
    /\ Len(values) = call.num_it

\* ---- C8
AllowedTransitions ==
    { <<"a", "b">>, <<"b", "c1">>, <<"b", "c2">>, <<"c1", "a">>, <<"c2", "b">> }

\* C8: in the scenario configuration a run from a start in [0, 30) never
\* fails, records only values in [0, 30) and only makes the label
\* transitions a->b, b->c1, b->c2, c1->a, c2->b; a start outside [0, 30)
\* fails at step 0 with the no-branch error.
C8_ScenarioStaysOnTheGraph ==
    (tree = ScenarioTree /\ call.op = "iter") =>
        IF 0 <= call.start /\ call.start < 30 * Unit
        THEN /\ call.raised = None
             /\ \A i \in 1..Len(values) : 0 <= values[i] /\ values[i] < 30 * Unit
             /\ \A i \in 1..(Len(itinerary) - 1) :
                    <<itinerary[i].label, itinerary[i + 1].label>> \in AllowedTransitions
        ELSE call.num_it >= 1 =>
                /\ call.raised = NoBranchError
                /\ values = <<call.start>>
                /\ itinerary = <<>>

\* ---- C9
\* C9: in every state len(itinerary) <= len(values) <= len(itinerary) + 1 and
\* itinerary[i] holds values[i]; the lengths are equal after a success and
\* after an undefined-point failure, and values is one longer, ending in the
\* unclassifiable value, after a no-branch failure; after a failure the
\* buffers hold that call's partial run only.
C9_BuffersStayParallel ==
    /\ Len(itinerary) <= Len(values)
    /\ Len(values) <= Len(itinerary) + 1
    /\ \A i \in 1..Len(itinerary) : Member(values[i], itinerary[i].domain)
    /\ call.op = "none" => values = <<>> /\ itinerary = <<>>
    /\ call.op = "iter" =>
          /\ call.raised \in {None, UndefinedPointError} => Len(values) = Len(itinerary)
          /\ call.raised = NoBranchError =>
                /\ Len(values) = Len(itinerary) + 1
                /\ IsError(ExpBranch(tree, Last(values)))
          /\ call.raised # None =>
                /\ Len(values) >= 1
                /\ Len(values) <= call.num_it
                /\ values[1] = call.start
                /\ \A i \in 1..(Len(values) - 1) : values[i + 1] = ExpF(tree, values[i]).val

\* a run was aborted by the no-branch error after at least one full step,
\* right after a run that had returned
C9_Witness ==
    /\ call.op = "iter"
    /\ call.raised = NoBranchError
    /\ Len(values) >= 2
    /\ call.prev = "returned"
====
